---- MODULE Spec2Model ----
(***************************************************************************)
(* The live voice session of the AssistantPanel component                  *)
(* (src/components/AssistantPanel.tsx) together with the part of App       *)
(* (src/unnamed/part_004) that owns the conversation history and the       *)
(* greeting.                                                               *)
(*                                                                         *)
(* The component is a React function component.  A value of React state    *)
(* that a callback reads is the value of the render that created the       *)
(* callback; a ref is read and written directly.  The model therefore      *)
(* keeps, next to the latest value of every piece of React state, the      *)
(* values of the last committed render ("rendered") and, for every         *)
(* session, the values its callbacks closed over when startSession ran.    *)
(* Every browser task (a click, a promise settling, a socket event, a      *)
(* render with its effects) is one action; the code that runs after an     *)
(* await on a settled promise runs in the same task, after the code of     *)
(* the caller (microtask order).  A render that a task scheduled is        *)
(* committed, and its effects run, before the next task.                   *)
(*                                                                         *)
(* Text is a sequence of one-character strings so that string              *)
(* concatenation and String.prototype.trim are computed, not assumed.     *)
(***************************************************************************)
EXTENDS Integers, Sequences, FiniteSets, TLC

\* Bounds of the model.
MaxSessions == 2     \* sessions that have not ended or still hold a resource
MaxTurns == 3        \* length of the conversation history
MaxBuf == 2          \* characters held in a committed transcript buffer
MaxLongBuf == 4      \* the same, where only the transcripts are followed
MaxGreetings == 2    \* greetings in flight at once
MaxSources == 2      \* output source nodes alive at once
MaxTime == 2         \* reading of the output context's clock
MaxDuration == 2     \* duration of an audio chunk
MaxBytes == 3        \* length of a byte sequence given to encode
MaxSamples == 2      \* length of a sample array given to createPcmBlob
MaxProfile == 2      \* profiles that the extractor can return, besides {}
MaxCalls == 3        \* calls of updateUserProfile in flight at once
MaxUsers == 2        \* users that can be selected

Sessions == 1..MaxSessions
NoRef == 0

\* The status strings of the component.
IdleStatus == "Idle. Click the mic to start."
ConnectingStatus == "Connecting..."
ListeningStatus == "Listening (Say 'Hey Rose')"
ReplyStatus == "Listening (Ready for your reply)"
GreetingStatus == "Rose is greeting you..."
SessionErrorStatus == "Error: <message>. Please restart."
MicErrorStatus == "Error: Could not start mic."
GreetingErrorStatus == "Error playing greeting."

ErrorStatuses == {SessionErrorStatus, MicErrorStatus, GreetingErrorStatus}

----------------------------------------------------------------------------
\* Text.

Space == <<" ">>
EmptyText == <<>>

RECURSIVE TrimStart(_)
TrimStart(s) == IF s # <<>> /\ Head(s) = " " THEN TrimStart(Tail(s)) ELSE s

RECURSIVE TrimEnd(_)
TrimEnd(s) ==
    IF s # <<>> /\ s[Len(s)] = " " THEN TrimEnd(SubSeq(s, 1, Len(s) - 1)) ELSE s

\* String.prototype.trim
Trim(s) == TrimEnd(TrimStart(s))

\* A transcription of a server message: {text, isFinal}.  An absent
\* transcription behaves as {text: '', isFinal: false} everywhere it is read.
NoTranscription == [text |-> EmptyText, isFinal |-> FALSE]
PartialFragment == [text |-> <<"p">>, isFinal |-> FALSE]
FinalFragment == [text |-> <<"a">>, isFinal |-> TRUE]

\* The fragments the remote session sends: partial text is "p", final text
\* is "a", so the origin of every character of the history is visible.
Transcriptions == {NoTranscription, PartialFragment, FinalFragment}

\* message.serverContent
Messages ==
    {m \in [inputTranscription : Transcriptions,
            outputTranscription : Transcriptions,
            turnComplete : BOOLEAN, audioData : BOOLEAN,
            duration : 0..MaxDuration, interrupted : BOOLEAN] :
        m.audioData = (m.duration > 0)}

NoMessage ==
    [inputTranscription |-> NoTranscription,
     outputTranscription |-> NoTranscription,
     turnComplete |-> FALSE, audioData |-> FALSE, duration |-> 0,
     interrupted |-> FALSE]

\* Messages that carry transcript fragments and turn-complete signals only.
TranscriptMessages ==
    {m \in Messages : ~m.audioData /\ ~m.interrupted}

\* Messages that carry a final fragment of one side, or the bare
\* turn-complete signal.
TurnMessages ==
    {[NoMessage EXCEPT !.inputTranscription = FinalFragment],
     [NoMessage EXCEPT !.outputTranscription = FinalFragment],
     [NoMessage EXCEPT !.turnComplete = TRUE]}

\* Messages that carry one fragment, partial or final, of one side, or the
\* bare turn-complete signal.
FragmentMessages ==
    TurnMessages \cup
    {[NoMessage EXCEPT !.inputTranscription = PartialFragment],
     [NoMessage EXCEPT !.outputTranscription = PartialFragment]}

\* Messages that carry an audio chunk, the interrupted signal, or both.
AudioMessages ==
    {m \in Messages : /\ m.inputTranscription = NoTranscription
                      /\ m.outputTranscription = NoTranscription
                      /\ ~m.turnComplete
                      /\ m.audioData \/ m.interrupted}

\* ConversationTurn
Turn(speaker, text) == [speaker |-> speaker, text |-> text, isFinal |-> TRUE]

\* The history App holds once a user is selected and nothing was saved.
WelcomeHistory == << Turn("assistant", <<"w">>) >>

RECURSIVE findLastIndex(_, _)
\* findLastIndex(array, t => t.speaker === speaker && t.isFinal); -1 as 0 - 1
findLastIndex(array, speaker) ==
    IF array = <<>> THEN 0 - 1
    ELSE IF array[Len(array)].speaker = speaker /\ array[Len(array)].isFinal
         THEN Len(array) - 1
         ELSE findLastIndex(SubSeq(array, 1, Len(array) - 1), speaker)

----------------------------------------------------------------------------
VARIABLES
    \* React state of AssistantPanel and App, latest value
    isListening, status, isMuted, conversationHistory, initialGreeting,
    \* the values of the last committed render
    rendered,
    \* refs of AssistantPanel
    sessionPromiseRef, mediaStreamRef, inputAudioContextRef,
    outputAudioContextRef, fullInputTranscriptRef, fullOutputTranscriptRef,
    sources, nextStartTime, isStoppingRef,
    \* the live fragments on display
    liveUserTranscript, liveAssistantTranscript,
    \* the clock of the output context (ctx.currentTime)
    currentTime,
    \* one record per startSession call: the remote session, the resources
    \* it acquired and the values its callbacks closed over
    sessions,
    \* stopSession calls suspended at an await
    stopTasks,
    \* playGreeting calls: waiting for generateSpeech, playing
    synthPending, greetingPlaying,
    \* history variables: the last task and what it did
    ev, sinceError, reopened, firstFinal,
    \* the audio helper functions on their own: the argument of encode, its
    \* result and the result of decode on it; the argument of createPcmBlob,
    \* the data of its result and the channel data of decodeAudioData on it;
    \* how far the helpers have been applied
    bytes, base64, decoded, data, pcmBlob, channelData, codecPc,
    \* App: the userProfile state, its value in the last committed render of
    \* App, the calls of updateUserProfile in flight, each with the
    \* currentUserProfile it was given, and what the last step did to them
    userProfile, profileRendered, profileCalls, profileEv,
    \* App and its users: the currentUser state, the user that the text of
    \* the initialGreeting state names, the user whose turns the
    \* conversationHistory state holds, the users with a saved conversation
    \* history in localStorage, for every user the playGreeting calls in flight
    \* whose text names that user, and the state that the last committed
    \* render of App read; 0 stands for null and for []
    currentUser, greetingUser, historyUser, savedHistory, greetingsFor,
    userRendered

panelVars == <<isListening, status, isMuted, conversationHistory, initialGreeting,
          rendered, sessionPromiseRef, mediaStreamRef, inputAudioContextRef,
          outputAudioContextRef, fullInputTranscriptRef,
          fullOutputTranscriptRef, sources, nextStartTime, isStoppingRef,
          liveUserTranscript, liveAssistantTranscript, currentTime, sessions, stopTasks, synthPending, greetingPlaying,
          ev, sinceError, reopened, firstFinal>>

codecVars == <<bytes, base64, decoded, data, pcmBlob, channelData, codecPc>>

appVars == <<userProfile, profileRendered, profileCalls, profileEv>>

userVars == <<currentUser, greetingUser, historyUser, savedHistory,
             greetingsFor, userRendered>>

vars == <<panelVars, codecVars, appVars, userVars>>

UnusedSession ==
    [state |-> "unused", isMuted |-> FALSE, flushes |-> FALSE,
     mic |-> "none", inputCtx |-> "none", closes |-> 0, micStops |-> 0,
     delivered |-> FALSE, capture |-> FALSE]

\* What the last task did: the outcome of the stopSession call it made or
\* resumed ("none", "noop", "wait", "done") and that call's caller, what became
\* of an audio chunk, which side had committed first when both sides were
\* flushed, whether a greeting that finished called onGreetingSpoken, and the
\* caller of the stopSession call that called close() on an open session.
Ev(S) == [stop |-> S.stop, origin |-> S.origin,
          audio |-> "none", first |-> "none", signalled |-> "none",
          interrupted |-> "none", frame |-> S.frame, message |-> NoMessage,
          discarded |-> S.discarded, closedBy |-> S.closedBy]

\* The program state as one record, threaded through the statements of a task.
Pack ==
    [isListening |-> isListening, status |-> status, isMuted |-> isMuted,
     conversationHistory |-> conversationHistory,
     initialGreeting |-> initialGreeting,
     sessionPromiseRef |-> sessionPromiseRef, mediaStreamRef |-> mediaStreamRef,
     inputAudioContextRef |-> inputAudioContextRef,
     outputAudioContextRef |-> outputAudioContextRef,
     fullInputTranscriptRef |-> fullInputTranscriptRef,
     fullOutputTranscriptRef |-> fullOutputTranscriptRef,
     sources |-> sources, nextStartTime |-> nextStartTime,
     isStoppingRef |-> isStoppingRef, currentTime |-> currentTime,
     liveUserTranscript |-> liveUserTranscript,
     liveAssistantTranscript |-> liveAssistantTranscript,
     sessions |-> sessions, stopTasks |-> stopTasks,
     synthPending |-> synthPending, greetingPlaying |-> greetingPlaying,
     stop |-> "none", origin |-> "none", starts |-> 0, frame |-> "none",
     discarded |-> FALSE, closedBy |-> "none"]

\* The model's bounds, as a guard of every task; buf is the bound of a
\* committed buffer.
BoundedWithin(S, buf) ==
    /\ Len(S.conversationHistory) <= MaxTurns
    /\ Len(S.fullInputTranscriptRef) <= buf
    /\ Len(S.fullOutputTranscriptRef) <= buf
    /\ Len(S.sources) <= MaxSources
    /\ S.currentTime <= MaxTime
    /\ S.synthPending + S.greetingPlaying <= MaxGreetings
    /\ Len(S.stopTasks) <= 2

\* A session that ended and holds nothing is forgotten, and the closures of a
\* session whose callbacks can no longer run are dropped.
Ended(S, i) == S.sessions[i].state \in {"closed", "failed", "rejected"}

Forgotten(S, i) ==
    /\ Ended(S, i)
    /\ S.sessions[i].mic # "live"
    /\ S.sessions[i].inputCtx # "running"
    /\ i \notin {S.sessionPromiseRef, S.mediaStreamRef, S.inputAudioContextRef}
    /\ \A k \in 1..Len(S.stopTasks) : S.stopTasks[k].target # i

Recycle(S) ==
    [i \in Sessions |->
        IF Forgotten(S, i) THEN UnusedSession
        ELSE IF Ended(S, i)
             THEN [S.sessions[i] EXCEPT !.isMuted = FALSE,
                                        !.flushes = FALSE,
                                        !.delivered = FALSE]
             ELSE S.sessions[i]]

Bounded(S) == BoundedWithin(S, MaxBuf)

\* The program state after a task.
Assign(S) ==
    /\ isListening' = S.isListening
    /\ status' = S.status
    /\ isMuted' = S.isMuted
    /\ conversationHistory' = S.conversationHistory
    /\ initialGreeting' = S.initialGreeting
    /\ sessionPromiseRef' = S.sessionPromiseRef
    /\ mediaStreamRef' = S.mediaStreamRef
    /\ inputAudioContextRef' = S.inputAudioContextRef
    /\ outputAudioContextRef' = S.outputAudioContextRef
    /\ fullInputTranscriptRef' = S.fullInputTranscriptRef
    /\ fullOutputTranscriptRef' = S.fullOutputTranscriptRef
    /\ sources' = S.sources
    /\ nextStartTime' = S.nextStartTime
    /\ liveUserTranscript' = S.liveUserTranscript
    /\ liveAssistantTranscript' = S.liveAssistantTranscript
    /\ currentTime' = S.currentTime
    /\ isStoppingRef' = S.isStoppingRef
    /\ sessions' = Recycle(S)
    /\ stopTasks' = S.stopTasks
    /\ synthPending' = S.synthPending
    /\ greetingPlaying' = S.greetingPlaying
    /\ UNCHANGED <<codecVars, appVars, userVars>>

Unpack(S) == Bounded(S) /\ Assign(S)

----------------------------------------------------------------------------
\* stopSession

\* "Final turn update logic": the condition under which the user's committed
\* buffer is flushed, on the history the callback closed over.
TeardownCondition(history) ==
    findLastIndex(history, "user") < findLastIndex(history, "assistant")

\* TeardownFlush without the trim of the text.
TeardownFlushUntrimmed(S, flushes) ==
    IF Trim(S.fullInputTranscriptRef) # EmptyText /\ flushes
    THEN Append(S.conversationHistory, Turn("user", S.fullInputTranscriptRef))
    ELSE S.conversationHistory

\* TeardownFlush that also flushes the assistant's committed buffer.
TeardownFlushBoth(S, flushes) ==
    (IF Trim(S.fullInputTranscriptRef) # EmptyText /\ flushes
     THEN Append(S.conversationHistory,
                 Turn("user", Trim(S.fullInputTranscriptRef)))
     ELSE S.conversationHistory)
    \o (IF Trim(S.fullOutputTranscriptRef) # EmptyText
        THEN << Turn("assistant", Trim(S.fullOutputTranscriptRef)) >>
        ELSE <<>>)

\* A closure of stopSession reads its conversationHistory in this condition
\* only, so a closure is kept as the value of the condition.
TeardownFlush(S, flushes) ==
    IF Trim(S.fullInputTranscriptRef) # EmptyText /\ flushes
    THEN Append(S.conversationHistory, Turn("user", Trim(S.fullInputTranscriptRef)))
    ELSE S.conversationHistory

\* StopFinish that leaves isStoppingRef set.
StopFinishKeepsGuard(S, flushes, origin) ==
    [S EXCEPT !.sources = <<>>,
              !.nextStartTime = 0,
              !.liveUserTranscript = EmptyText,
              !.liveAssistantTranscript = EmptyText,
              !.isListening = FALSE,
              !.status = IdleStatus,
              !.conversationHistory = TeardownFlush(S, flushes),
              !.fullInputTranscriptRef = EmptyText,
              !.fullOutputTranscriptRef = EmptyText,
              !.stop = "done",
              !.discarded = @ \/ S.fullOutputTranscriptRef # EmptyText
                              \/ S.liveAssistantTranscript # EmptyText,
              !.origin = origin]

\* stopSession from "Stop any currently playing audio" to its end.
StopFinish(S, flushes, origin) ==
    [S EXCEPT !.sources = <<>>,
              !.nextStartTime = 0,
              !.liveUserTranscript = EmptyText,
              !.liveAssistantTranscript = EmptyText,
              !.isListening = FALSE,
              !.status = IdleStatus,
              !.conversationHistory = TeardownFlush(S, flushes),
              !.fullInputTranscriptRef = EmptyText,
              !.fullOutputTranscriptRef = EmptyText,
              !.isStoppingRef = FALSE,
              !.stop = "done",
              !.discarded = @ \/ S.fullOutputTranscriptRef # EmptyText
                              \/ S.liveAssistantTranscript # EmptyText,
              !.origin = origin]

\* mediaStreamRef.current.getTracks().forEach(track => track.stop())
StopTracks(S) ==
    IF S.mediaStreamRef # NoRef
    THEN [S EXCEPT !.sessions[S.mediaStreamRef].mic = "stopped",
                   !.sessions[S.mediaStreamRef].micStops = @ + 1,
                   !.mediaStreamRef = NoRef]
    ELSE S

\* stopSession from the release of the media stream to the await of
\* inputAudioContextRef.current.close().
StopRelease(S, flushes, origin) ==
    LET S1 == StopTracks(S)
        c == S1.inputAudioContextRef
    IN  IF c # NoRef /\ S1.sessions[c].inputCtx # "closed"
        THEN [S1 EXCEPT !.sessions[c].inputCtx = "closed",
                        !.stopTasks = Append(@, [pc |-> "ctx", target |-> c,
                                                 flushes |-> flushes,
                                                 origin |-> origin]),
                        !.stop = "wait"]
        ELSE StopFinish(S1, flushes, origin)

\* The session promise of session t has settled.
Settled(S, t) == S.sessions[t].state \in {"open", "closing", "closed", "rejected"}

\* stopSession after "await sessionPromiseRef.current" on session t.
StopAfterSession(S, t, flushes, origin) ==
    LET S1 == IF S.sessions[t].state = "rejected"
              THEN S
              ELSE [S EXCEPT !.sessions[t].closes = @ + 1,
                             !.sessions[t].state =
                                 IF @ = "open" THEN "closing" ELSE @,
                             !.closedBy =
                                 IF S.sessions[t].state = "open"
                                 THEN origin ELSE @]
    IN  StopRelease([S1 EXCEPT !.sessionPromiseRef = NoRef], flushes, origin)

\* stopSession without its guard.
StopGuardMissing(S) == FALSE

\* if (isStoppingRef.current) return;
StopGuard(S) == S.isStoppingRef

\* A call of stopSession, up to its first await.
StopSession(S, flushes, origin) ==
    IF StopGuard(S)
    THEN [S EXCEPT !.stop = "noop"]
    ELSE LET S1 == [S EXCEPT !.isStoppingRef = TRUE]
         IN  IF S1.sessionPromiseRef # NoRef
             THEN [S1 EXCEPT !.stopTasks =
                                 Append(@, [pc |-> "session",
                                            target |-> S1.sessionPromiseRef,
                                            flushes |-> flushes,
                                            origin |-> origin]),
                             !.stop = "wait"]
             ELSE StopRelease(S1, flushes, origin)

RECURSIVE Remove(_, _)
Remove(q, k) ==
    IF q = <<>> THEN <<>>
    ELSE IF k = 1 THEN Tail(q) ELSE <<Head(q)>> \o Remove(Tail(q), k - 1)

\* session.sendRealtimeInput({ media: pcmBlob }) on session t, the reaction
\* that onaudioprocess registered on the session promise; a rejected promise
\* does not call it.  The frame is late when stopSession has already called
\* close() on the session.
SendRealtimeInput(S, t) ==
    IF S.sessions[t].state = "rejected" THEN [S EXCEPT !.frame = "dropped"]
    ELSE [S EXCEPT !.frame = IF S.sessions[t].closes > 0
                             THEN "late" ELSE "sent"]

RECURSIVE Microtasks(_)
\* The end of a task: every stopSession and every captured frame waiting for
\* a settled session promise continues, in the order in which they began to
\* wait.
Microtasks(S) ==
    LET ready == {k \in 1..Len(S.stopTasks) :
                     /\ S.stopTasks[k].pc \in {"session", "frame"}
                     /\ Settled(S, S.stopTasks[k].target)}
    IN  IF ready = {} THEN S
        ELSE LET k == CHOOSE x \in ready : \A y \in ready : x <= y
                 t == S.stopTasks[k]
                 S1 == [S EXCEPT !.stopTasks = Remove(@, k)]
             IN  IF t.pc = "frame"
                 THEN Microtasks(SendRealtimeInput(S1, t.target))
                 ELSE Microtasks(StopAfterSession(
                          S1, t.target, t.flushes, t.origin))

----------------------------------------------------------------------------
\* startSession and the callbacks of the session

Started == {i \in Sessions : sessions[i].state # "unused"}

\* startSession up to "await navigator.mediaDevices.getUserMedia": the
\* callbacks of session i close over the state of the last render.
StartSession(S, i) ==
    [S EXCEPT !.isListening = TRUE,
              !.status = ConnectingStatus,
              !.starts = @ + 1,
              !.sessions[i] =
                  [UnusedSession EXCEPT
                      !.state = "acquiring",
                      !.isMuted = rendered.isMuted,
                      !.flushes =
                          TeardownCondition(rendered.conversationHistory)]]

\* NewTurns with the two pushes exchanged.
NewTurnsAssistantFirst(fullInput, fullOutput, m) ==
    LET finalInputTranscript == fullInput \o Space \o m.inputTranscription.text
        finalOutputTranscript == fullOutput \o Space \o m.outputTranscription.text
    IN  (IF Trim(finalOutputTranscript) # EmptyText
         THEN << Turn("assistant", Trim(finalOutputTranscript)) >> ELSE <<>>)
        \o
        (IF Trim(finalInputTranscript) # EmptyText
         THEN << Turn("user", Trim(finalInputTranscript)) >> ELSE <<>>)

\* The turns a turn-complete message emits.
NewTurns(fullInput, fullOutput, m) ==
    LET finalInputTranscript == fullInput \o Space \o m.inputTranscription.text
        finalOutputTranscript == fullOutput \o Space \o m.outputTranscription.text
    IN  (IF Trim(finalInputTranscript) # EmptyText
         THEN << Turn("user", Trim(finalInputTranscript)) >> ELSE <<>>)
        \o
        (IF Trim(finalOutputTranscript) # EmptyText
         THEN << Turn("assistant", Trim(finalOutputTranscript)) >> ELSE <<>>)

\* Reconcile whose final fragments replace the committed buffers.
ReconcileReplaces(S, i, m) ==
    IF m.turnComplete
    THEN LET newTurns == NewTurns(S.fullInputTranscriptRef,
                                  S.fullOutputTranscriptRef, m)
         IN  [S EXCEPT !.conversationHistory = @ \o newTurns,
                       !.sessions[i].delivered = TRUE,
                       !.fullInputTranscriptRef = EmptyText,
                       !.fullOutputTranscriptRef = EmptyText,
                       !.liveUserTranscript = EmptyText,
                       !.liveAssistantTranscript = EmptyText,
                       !.status = ListeningStatus]
    ELSE [S EXCEPT !.sessions[i].delivered = TRUE,
                   !.liveUserTranscript =
                       IF m.inputTranscription.isFinal THEN EmptyText
                       ELSE IF m.inputTranscription.text # EmptyText
                            THEN m.inputTranscription.text ELSE @,
                   !.liveAssistantTranscript =
                       IF m.outputTranscription.isFinal THEN EmptyText
                       ELSE IF m.outputTranscription.text # EmptyText
                            THEN m.outputTranscription.text ELSE @,
                   !.fullInputTranscriptRef =
                       IF m.inputTranscription.isFinal
                       THEN Space \o m.inputTranscription.text ELSE @,
                   !.fullOutputTranscriptRef =
                       IF m.outputTranscription.isFinal
                       THEN Space \o m.outputTranscription.text ELSE @,
                   !.status =
                       IF m.outputTranscription.isFinal THEN ReplyStatus ELSE @]

\* onmessage, the transcript part: if (turnComplete) {...} else {...}
Reconcile(S, i, m) ==
    IF m.turnComplete
    THEN LET newTurns == NewTurns(S.fullInputTranscriptRef,
                                  S.fullOutputTranscriptRef, m)
         IN  [S EXCEPT !.conversationHistory = @ \o newTurns,
                       !.sessions[i].delivered = TRUE,
                       !.fullInputTranscriptRef = EmptyText,
                       !.fullOutputTranscriptRef = EmptyText,
                       !.liveUserTranscript = EmptyText,
                       !.liveAssistantTranscript = EmptyText,
                       !.status = ListeningStatus]
    ELSE [S EXCEPT !.sessions[i].delivered = TRUE,
                   !.liveUserTranscript =
                       IF m.inputTranscription.isFinal THEN EmptyText
                       ELSE IF m.inputTranscription.text # EmptyText
                            THEN m.inputTranscription.text ELSE @,
                   !.liveAssistantTranscript =
                       IF m.outputTranscription.isFinal THEN EmptyText
                       ELSE IF m.outputTranscription.text # EmptyText
                            THEN m.outputTranscription.text ELSE @,
                   !.fullInputTranscriptRef =
                       IF m.inputTranscription.isFinal
                       THEN @ \o Space \o m.inputTranscription.text ELSE @,
                   !.fullOutputTranscriptRef =
                       IF m.outputTranscription.isFinal
                       THEN @ \o Space \o m.outputTranscription.text ELSE @,
                   !.status =
                       IF m.outputTranscription.isFinal THEN ReplyStatus ELSE @]

\* The mute flag the audio part of onmessage of session i reads.
MuteRead(S, i) == S.sessions[i].isMuted

\* if (audioData && !isMuted)
ChunkPlays(S, i, m) == m.audioData /\ ~MuteRead(S, i)

Max(a, b) == IF a >= b THEN a ELSE b

\* ScheduleChunk that starts a chunk one step before the first live node.
ScheduleChunkFirst(S, i, m) ==
    IF ChunkPlays(S, i, m)
    THEN LET start == IF S.sources = <<>>
                      THEN Max(S.nextStartTime, S.currentTime)
                      ELSE S.sources[1].start - 1
         IN  [S EXCEPT !.outputAudioContextRef = "open",
                       !.nextStartTime = Max(@, start + m.duration),
                       !.sources = Append(@, [start |-> start,
                                              duration |-> m.duration,
                                              at |-> S.currentTime])]
    ELSE S

\* ScheduleChunk that starts every chunk at the clock's reading.
ScheduleChunkAtClock(S, i, m) ==
    IF ChunkPlays(S, i, m)
    THEN [S EXCEPT !.outputAudioContextRef = "open",
                   !.nextStartTime = S.currentTime + m.duration,
                   !.sources = Append(@, [start |-> S.currentTime,
                                          duration |-> m.duration,
                                          at |-> S.currentTime])]
    ELSE S

\* onmessage, the audio part: the chunk is decoded and started on the output
\* context, which is created when there is none, at the later of
\* nextStartTime and the clock; nextStartTime moves to the chunk's end.  A
\* source node is kept as its start time and duration, and the clock's
\* reading when it was started.
ScheduleChunk(S, i, m) ==
    IF ChunkPlays(S, i, m)
    THEN LET start == Max(S.nextStartTime, S.currentTime)
         IN  [S EXCEPT !.outputAudioContextRef = "open",
                       !.nextStartTime = start + m.duration,
                       !.sources = Append(@, [start |-> start,
                                              duration |-> m.duration,
                                              at |-> S.currentTime])]
    ELSE S

\* The interrupted branch that spares the node started last.
InterruptKeepsNewest(S, m) ==
    IF m.interrupted
    THEN [S EXCEPT !.sources = IF @ = <<>> THEN @ ELSE <<@[Len(@)]>>,
                   !.nextStartTime = 0]
    ELSE S

\* The interrupted branch without nextStartTime.current = 0.
InterruptKeepsCursor(S, m) ==
    IF m.interrupted THEN [S EXCEPT !.sources = <<>>] ELSE S

\* if (message.serverContent?.interrupted)
Interrupt(S, m) ==
    IF m.interrupted
    THEN [S EXCEPT !.sources = <<>>, !.nextStartTime = 0]
    ELSE S

\* onerror that opens a session again after the teardown.
OnErrorHandlerRetry(S, i) ==
    LET S1 == StopSession([S EXCEPT !.status = SessionErrorStatus],
                          S.sessions[i].flushes, "onerror")
        free == {x \in Sessions : S1.sessions[x].state = "unused"}
    IN  IF free = {} THEN S1
        ELSE StartSession(S1, CHOOSE x \in free : \A y \in free : x <= y)

\* onerror
OnErrorHandler(S, i) ==
    StopSession([S EXCEPT !.status = SessionErrorStatus],
                S.sessions[i].flushes, "onerror")

\* onclose
OnCloseHandler(S, i) ==
    IF ~S.isStoppingRef
    THEN StopSession(S, S.sessions[i].flushes, "onclose")
    ELSE S

\* The catch block of startSession without setIsListening(false).
StartCatchKeepsListening(S, i) ==
    [S EXCEPT !.status = MicErrorStatus,
              !.sessions[i].state = "failed"]

\* The catch block of startSession, entered when getUserMedia rejects.
StartCatch(S, i) ==
    [S EXCEPT !.status = MicErrorStatus,
              !.isListening = FALSE,
              !.sessions[i].state = "failed"]

\* playGreeting up to "await generateSpeech(...)", with the initialGreeting
\* and isMuted of the render whose effect runs.
PlayGreeting(S) ==
    IF S.initialGreeting /\ ~S.isMuted
    THEN [S EXCEPT !.status = GreetingStatus, !.synthPending = @ + 1]
    ELSE S

----------------------------------------------------------------------------
\* The state a render reads.
Snapshot ==
    [isListening |-> isListening, isMuted |-> isMuted,
     conversationHistory |-> conversationHistory,
     initialGreeting |-> initialGreeting]

\* State was set since the last render.
Dirty == rendered # Snapshot

\* The dependencies of the effect that plays the greeting changed: App
\* rendered again (onGreetingSpoken is a new function on every render of App,
\* stopSession a new one with every new history), or isMuted changed.
EffectRuns ==
    \/ rendered.conversationHistory # conversationHistory
    \/ rendered.initialGreeting # initialGreeting
    \/ rendered.isMuted # isMuted

\* The history variables after a task.  kind is "user" for a click, "error"
\* for a transport error and "task" otherwise; side is the side whose final
\* fragment the task committed, if any.
History(S, kind, side) ==
    /\ firstFinal' =
           IF /\ S.fullInputTranscriptRef = EmptyText
              /\ S.fullOutputTranscriptRef = EmptyText
           THEN "none"
           ELSE IF firstFinal # "none" THEN firstFinal ELSE side
    /\ sinceError' =
           IF kind = "error" THEN "noUser"
           ELSE IF kind = "user"
                THEN IF S.starts > 0 THEN "none"
                     ELSE IF sinceError = "noUser" THEN "userActed" ELSE sinceError
                ELSE sinceError
    /\ reopened' =
           IF kind = "error" THEN S.starts > 0
           ELSE IF sinceError' = "none" THEN FALSE
                ELSE reopened \/ S.starts > 0

\* The state after the panel has mounted for a loaded user: App holds a
\* greeting when it found no saved history, none when it found one or when
\* the greeting has been spoken.
PanelMounted(greeting) ==
    /\ isListening = FALSE
    /\ isMuted = FALSE
    /\ conversationHistory = WelcomeHistory
    /\ initialGreeting = greeting
    /\ status = IF greeting THEN GreetingStatus ELSE IdleStatus
    /\ synthPending = IF greeting THEN 1 ELSE 0
    /\ greetingPlaying = 0
    /\ rendered = Snapshot
    /\ sessionPromiseRef = NoRef
    /\ mediaStreamRef = NoRef
    /\ inputAudioContextRef = NoRef
    /\ outputAudioContextRef = "none"
    /\ fullInputTranscriptRef = EmptyText
    /\ fullOutputTranscriptRef = EmptyText
    /\ sources = <<>>
    /\ nextStartTime = 0
    /\ liveUserTranscript = EmptyText
    /\ liveAssistantTranscript = EmptyText
    /\ currentTime = 0
    /\ isStoppingRef = FALSE
    /\ sessions = [i \in Sessions |-> UnusedSession]
    /\ stopTasks = <<>>
    /\ ev = Ev(Pack)
    /\ sinceError = "none"
    /\ reopened = FALSE
    /\ firstFinal = "none"

\* The helper functions are not followed on their own.
CodecIdle ==
    /\ bytes = <<>>
    /\ base64 = <<>>
    /\ decoded = <<>>
    /\ data = <<>>
    /\ pcmBlob = <<>>
    /\ channelData = <<>>
    /\ codecPc = "idle"

\* The profiles: 0 is the empty profile {} of a new user.
Profiles == 0..MaxProfile

\* App after the user is loaded, with no saved profile.
ProfileLoaded ==
    /\ userProfile = 0
    /\ profileRendered = 0
    /\ profileCalls = <<>>
    /\ profileEv = "none"

\* The users of the model and null.
Users == 1..MaxUsers
NoUser == 0

\* The state of App that a render reads of its users.
UserSnapshot ==
    [currentUser |-> currentUser, greetingUser |-> greetingUser,
     historyUser |-> historyUser]

\* App at its first render, with the histories that localStorage holds from
\* earlier visits: no user is selected, no greeting is held and the
\* conversation history is [].
LoginScreen(saved) ==
    /\ currentUser = NoUser
    /\ greetingUser = NoUser
    /\ historyUser = NoUser
    /\ savedHistory = saved
    /\ greetingsFor = [u \in Users |-> 0]
    /\ userRendered = UserSnapshot

\* The selection of users is not followed on its own.
UsersIdle == LoginScreen({})

Mounted(greeting) ==
    PanelMounted(greeting) /\ CodecIdle /\ ProfileLoaded /\ UsersIdle

Init == \E greeting \in BOOLEAN : Mounted(greeting)

\* No greeting is pending.
InitSpoken == Mounted(FALSE)

\* React commits a render; when the dependencies of the greeting effect
\* changed, the cleanup of the previous effect calls the stopSession of the
\* previous render and the effect runs playGreeting again.
Render ==
    /\ Dirty
    /\ LET S1 == IF EffectRuns
                 THEN PlayGreeting(StopSession(
                          Pack, TeardownCondition(rendered.conversationHistory),
                          "cleanup"))
                 ELSE Pack
           S == Microtasks(S1)
       IN  /\ Unpack(S)
           /\ ev' = Ev(S)
           /\ History(S, "task", "none")
    /\ rendered' = Snapshot

\* The mic button: stopSession when the rendered isListening is true,
\* startSession otherwise.
HandleToggleListening ==
    /\ ~Dirty
    /\ rendered.isListening \/ Started # Sessions
    /\ LET i == CHOOSE x \in Sessions \ Started :
                    \A y \in Sessions \ Started : x <= y
           S == IF rendered.isListening
                THEN Microtasks(StopSession(
                         Pack, TeardownCondition(rendered.conversationHistory),
                         "user"))
                ELSE StartSession(Pack, i)
       IN  /\ Unpack(S)
           /\ ev' = Ev(S)
           /\ History(S, "user", "none")
    /\ UNCHANGED rendered

\* The mute button: setIsMuted(prev => !prev)
ToggleMute ==
    /\ ~Dirty
    /\ LET S == [Pack EXCEPT !.isMuted = ~@]
       IN  /\ Unpack(S)
           /\ ev' = Ev(S)
           /\ History(S, "user", "none")
    /\ UNCHANGED rendered

\* getUserMedia resolves: startSession runs to the end of its try block.
MicGranted(i) ==
    /\ ~Dirty
    /\ sessions[i].state = "acquiring"
    /\ LET S == [Pack EXCEPT !.mediaStreamRef = i,
                             !.inputAudioContextRef = i,
                             !.sessionPromiseRef = i,
                             !.sessions[i].mic = "live",
                             !.sessions[i].inputCtx = "running",
                             !.sessions[i].state = "connecting"]
       IN  /\ Unpack(S)
           /\ ev' = Ev(S)
           /\ History(S, "task", "none")
    /\ UNCHANGED rendered

\* getUserMedia rejects: the catch block of startSession.
MicDenied(i) ==
    /\ ~Dirty
    /\ sessions[i].state = "acquiring"
    /\ LET S == StartCatch(Pack, i)
       IN  /\ Unpack(S)
           /\ ev' = Ev(S)
           /\ History(S, "task", "none")
    /\ UNCHANGED rendered

\* ai.live.connect resolves: onopen, then whatever awaited the promise.
ConnectOk(i) ==
    /\ ~Dirty
    /\ sessions[i].state = "connecting"
    /\ LET S == Microtasks([Pack EXCEPT
                               !.status = ListeningStatus,
                               !.sessions[i].state = "open",
                               !.sessions[i].capture =
                                   (inputAudioContextRef = i)])
       IN  /\ Unpack(S)
           /\ ev' = Ev(S)
           /\ History(S, "task", "none")
    /\ UNCHANGED rendered

\* ai.live.connect rejects: nothing of startSession awaits the promise.
ConnectRejected(i) ==
    /\ ~Dirty
    /\ sessions[i].state = "connecting"
    /\ LET S == Microtasks([Pack EXCEPT !.sessions[i].state = "rejected"])
       IN  /\ Unpack(S)
           /\ ev' = Ev(S)
           /\ History(S, "task", "none")
    /\ UNCHANGED rendered

\* onaudioprocess of the script processor of session i, which onopen wired
\* to the session's microphone and connected to the destination of the
\* input context: sessionPromiseRef.current?.then(session =>
\* session.sendRealtimeInput(...)).  The reaction runs at the end of this task
\* when the promise has settled, and waits for it otherwise.
AudioProcess(i) ==
    /\ ~Dirty
    /\ sessions[i].capture
    /\ sessions[i].mic = "live"
    /\ sessions[i].inputCtx = "running"
    /\ LET t == sessionPromiseRef
           S == IF t = NoRef THEN [Pack EXCEPT !.frame = "dropped"]
                ELSE Microtasks(
                         [Pack EXCEPT !.stopTasks =
                             Append(@, [pc |-> "frame", target |-> t,
                                        flushes |-> FALSE,
                                        origin |-> "capture"])])
       IN  /\ Unpack(S)
           /\ ev' = Ev(S)
           /\ History(S, "task", "none")
    /\ UNCHANGED rendered

\* onmessage of session i with serverContent m, within the bound buf of a
\* committed buffer.
OnMessageWithin(i, m, buf) ==
    /\ ~Dirty
    /\ sessions[i].state = "open"
    /\ LET S0 == ScheduleChunk(Reconcile(Pack, i, m), i, m)
           S == Interrupt(S0, m)
           both == m.turnComplete
                   /\ Len(S.conversationHistory) = Len(conversationHistory) + 2
       IN  /\ BoundedWithin(S, buf)
           /\ Assign(S)
           /\ ev' = [Ev(S) EXCEPT
                        !.message = m,
                        !.audio = IF ~m.audioData THEN "none"
                                  ELSE IF ChunkPlays(Pack, i, m)
                                       THEN "scheduled" ELSE "dropped",
                        !.first = IF ~both THEN "none"
                                  ELSE IF firstFinal # "none" THEN firstFinal
                                       ELSE "same",
                        !.interrupted =
                            IF ~m.interrupted THEN "none"
                            ELSE IF S0.sources = <<>> /\ S0.nextStartTime = 0
                                 THEN "noop" ELSE "cleared"]
           /\ History(S, "task",
                      IF m.inputTranscription.isFinal THEN "user"
                      ELSE IF m.outputTranscription.isFinal
                           THEN "assistant" ELSE "none")
    /\ UNCHANGED rendered

OnMessage(i, m) == OnMessageWithin(i, m, MaxBuf)

\* onmessage where a committed buffer can hold two final fragments.
OnFragment(i, m) == OnMessageWithin(i, m, MaxLongBuf)

\* onerror of session i: a transport error on the open session.
OnError(i) ==
    /\ ~Dirty
    /\ sessions[i].state = "open"
    /\ LET S == Microtasks(OnErrorHandler(
                    [Pack EXCEPT !.sessions[i].state = "closing"], i))
       IN  /\ Unpack(S)
           /\ ev' = Ev(S)
           /\ History(S, "error", "none")
    /\ UNCHANGED rendered

\* onclose of session i: after session.close(), after an error, or when the
\* server ends the session.
OnClose(i) ==
    /\ ~Dirty
    /\ sessions[i].state \in {"open", "closing"}
    /\ LET S == Microtasks(OnCloseHandler(
                    [Pack EXCEPT !.sessions[i].state = "closed"], i))
       IN  /\ Unpack(S)
           /\ ev' = Ev(S)
           /\ History(S, "task", "none")
    /\ UNCHANGED rendered

\* inputAudioContextRef.current.close() resolves: stopSession continues.
StopResume(k) ==
    /\ ~Dirty
    /\ k \in 1..Len(stopTasks)
    /\ stopTasks[k].pc = "ctx"
    /\ LET t == stopTasks[k]
           S == Microtasks(StopFinish(
                    [Pack EXCEPT !.stopTasks = Remove(@, k),
                                 !.inputAudioContextRef = NoRef],
                    t.flushes, t.origin))
       IN  /\ Unpack(S)
           /\ ev' = Ev(S)
           /\ History(S, "task", "none")
    /\ UNCHANGED rendered

\* generateSpeech resolves and the audio decodes: the greeting starts to play.
GreetingStarts ==
    /\ ~Dirty
    /\ synthPending > 0
    /\ LET S == [Pack EXCEPT !.synthPending = @ - 1, !.greetingPlaying = @ + 1]
       IN  /\ Unpack(S)
           /\ ev' = Ev(S)
           /\ History(S, "task", "none")
    /\ UNCHANGED rendered

\* generateSpeech, decode or decodeAudioData throws: the catch of playGreeting
\* sets the status and does not call onGreetingSpoken.
GreetingFails ==
    /\ ~Dirty
    /\ synthPending > 0
    /\ LET S == [Pack EXCEPT !.synthPending = @ - 1,
                             !.status = GreetingErrorStatus]
       IN  /\ Unpack(S)
           /\ ev' = [Ev(S) EXCEPT !.signalled = "no"]
           /\ History(S, "task", "none")
    /\ UNCHANGED rendered

\* source.onended of the greeting: outCtx.close(); onGreetingSpoken();
\* setStatus(idle).  onGreetingSpoken is () => setInitialGreeting(null).
GreetingEnds ==
    /\ ~Dirty
    /\ greetingPlaying > 0
    /\ LET S == [Pack EXCEPT !.greetingPlaying = @ - 1,
                             !.initialGreeting = FALSE,
                             !.status = IdleStatus]
       IN  /\ Unpack(S)
           /\ ev' = [Ev(S) EXCEPT !.signalled = "yes"]
           /\ History(S, "task", "none")
    /\ UNCHANGED rendered

\* 'ended' of an output source node that has played to its end:
\* sources.current.delete(sourceNode).  The nodes end in the order in which
\* they were started, each one starting no earlier than the one before.
SourceEnded ==
    /\ ~Dirty
    /\ sources # <<>>
    /\ sources[1].start + sources[1].duration <= currentTime
    /\ LET S == [Pack EXCEPT !.sources = Tail(@)]
       IN  /\ Unpack(S)
           /\ ev' = Ev(S)
           /\ History(S, "task", "none")
    /\ UNCHANGED rendered

\* The clock of the output context advances.
Tick ==
    /\ ~Dirty
    /\ outputAudioContextRef = "open"
    /\ LET S == [Pack EXCEPT !.currentTime = @ + 1]
       IN  /\ Unpack(S)
           /\ ev' = Ev(S)
           /\ History(S, "task", "none")
    /\ UNCHANGED rendered

----------------------------------------------------------------------------
\* The tasks of the life cycle of a session, but for the mic button.
SessionTasks ==
    \/ Render
    \/ \E i \in Sessions : MicGranted(i)
    \/ \E i \in Sessions : MicDenied(i)
    \/ \E i \in Sessions : ConnectOk(i)
    \/ \E i \in Sessions : ConnectRejected(i)
    \/ \E i \in Sessions : OnError(i)
    \/ \E i \in Sessions : OnClose(i)
    \/ \E k \in 1..2 : StopResume(k)

Lifecycle == HandleToggleListening \/ SessionTasks

\* A user who stops a session at any time and starts one only when no earlier
\* session is left.
PatientToggleListening ==
    /\ rendered.isListening \/ Started = {}
    /\ HandleToggleListening

\* Sessions whose messages are final fragments and turn-complete signals; no
\* greeting is pending.
Next ==
    \/ Lifecycle
    \/ \E i \in Sessions : \E m \in TurnMessages : OnMessage(i, m)

Spec == InitSpoken /\ [][Next]_vars

\* One session after the other, which receive every combination of partial
\* and final fragments and turn-complete signals.
NextSerial ==
    \/ PatientToggleListening
    \/ SessionTasks
    \/ \E i \in Sessions : \E m \in TranscriptMessages : OnMessage(i, m)

SpecSerial == InitSpoken /\ [][NextSerial]_vars

\* Sessions that receive audio chunks and interrupted signals, with the mute
\* button.
NextAudio ==
    \/ Lifecycle
    \/ ToggleMute
    \/ \E i \in Sessions : \E m \in AudioMessages : OnMessage(i, m)

SpecAudio == InitSpoken /\ [][NextAudio]_vars

\* One session after the other, whose committed buffers can hold two final
\* fragments.
NextFragments ==
    \/ PatientToggleListening
    \/ Render
    \/ \E i \in Sessions : MicGranted(i)
    \/ \E i \in Sessions : ConnectOk(i)
    \/ \E i \in Sessions : OnClose(i)
    \/ \E k \in 1..2 : StopResume(k)
    \/ \E i \in Sessions : \E m \in FragmentMessages : OnFragment(i, m)

SpecFragments == InitSpoken /\ [][NextFragments]_vars

\* Sessions whose microphones are captured while they are started and
\* stopped.
NextCapture ==
    \/ Lifecycle
    \/ \E i \in Sessions : AudioProcess(i)

SpecCapture == InitSpoken /\ [][NextCapture]_vars

\* One session after the other, which receive audio chunks and interrupted
\* signals while the clock of the output context runs.
NextTimeline ==
    \/ PatientToggleListening
    \/ Render
    \/ \E i \in Sessions : MicGranted(i)
    \/ \E i \in Sessions : ConnectOk(i)
    \/ \E i \in Sessions : OnClose(i)
    \/ \E k \in 1..2 : StopResume(k)
    \/ SourceEnded
    \/ Tick
    \/ \E i \in Sessions : \E m \in AudioMessages : OnMessage(i, m)

SpecTimeline == InitSpoken /\ [][NextTimeline]_vars

-----------------------------------------------------------------------------
\* Audio helper functions

\* The base64 alphabet of btoa and atob.
Alphabet ==
    <<"A", "B", "C", "D", "E", "F", "G", "H", "I", "J", "K", "L", "M",
      "N", "O", "P", "Q", "R", "S", "T", "U", "V", "W", "X", "Y", "Z",
      "a", "b", "c", "d", "e", "f", "g", "h", "i", "j", "k", "l", "m",
      "n", "o", "p", "q", "r", "s", "t", "u", "v", "w", "x", "y", "z",
      "0", "1", "2", "3", "4", "5", "6", "7", "8", "9", "+", "/">>

Pad == "="

\* The character of a six-bit value and the six-bit value of a character.
Char(v) == Alphabet[v + 1]
Sextet(c) == (CHOOSE k \in 1..Len(Alphabet) : Alphabet[k] = c) - 1

\* btoa on a binary string, kept as the sequence of its code units, which
\* are all below 256 here: three code units give four characters, and a
\* last group of one or two is padded.
RECURSIVE Btoa(_)
Btoa(binary) ==
    IF Len(binary) = 0 THEN <<>>
    ELSE IF Len(binary) = 1
    THEN <<Char(binary[1] \div 4), Char((binary[1] % 4) * 16), Pad, Pad>>
    ELSE IF Len(binary) = 2
    THEN <<Char(binary[1] \div 4),
           Char((binary[1] % 4) * 16 + binary[2] \div 16),
           Char((binary[2] % 16) * 4), Pad>>
    ELSE <<Char(binary[1] \div 4),
           Char((binary[1] % 4) * 16 + binary[2] \div 16),
           Char((binary[2] % 16) * 4 + binary[3] \div 64),
           Char(binary[3] % 64)>>
         \o Btoa(SubSeq(binary, 4, Len(binary)))

\* atob on a padded base64 text: four characters give three code units,
\* fewer when the group is padded.
RECURSIVE Atob(_)
Atob(text) ==
    IF Len(text) < 4 THEN <<>>
    ELSE LET first == Sextet(text[1]) * 4 + Sextet(text[2]) \div 16
             rest == Atob(SubSeq(text, 5, Len(text)))
         IN  IF text[3] = Pad THEN <<first>> \o rest
             ELSE LET second == (Sextet(text[2]) % 16) * 16
                                    + Sextet(text[3]) \div 4
                  IN  IF text[4] = Pad THEN <<first, second>> \o rest
                      ELSE <<first, second,
                             (Sextet(text[3]) % 4) * 64 + Sextet(text[4])>>
                           \o rest

\* encode: binary += String.fromCharCode(bytes[i]); return btoa(binary)
encode(b) == Btoa([k \in 1..Len(b) |-> b[k] % 65536])

\* decode that keeps the low seven bits of every code unit.
decodeSevenBits(text) ==
    LET binaryString == Atob(text)
    IN  [k \in 1..Len(binaryString) |-> binaryString[k] % 128]

\* decode: bytes[i] = binaryString.charCodeAt(i), stored in a Uint8Array
decode(text) ==
    LET binaryString == Atob(text)
    IN  [k \in 1..Len(binaryString) |-> binaryString[k] % 256]

\* A sample is kept as the number of its 65536ths, so that 65536 is the
\* sample 1.0, -65536 the sample -1.0 and 2 one step of the 16-bit scale.
\* The store of a number into an Int16Array: the fraction is dropped towards
\* zero and the integer wraps modulo 2^16 into -32768..32767.
ToInt16(x) ==
    LET m == x % 65536 IN IF m >= 32768 THEN m - 65536 ELSE m

\* data[i] * 32768.0 without its fraction, for a sample in 65536ths
Scaled(sample) ==
    IF sample >= 0 THEN sample \div 2 ELSE -((-sample) \div 2)

\* new Uint8Array(int16.buffer): two bytes per value, low byte first
Int16Bytes(int16) ==
    [k \in 1..(2 * Len(int16)) |->
        LET u == int16[(k + 1) \div 2] % 65536
        IN  IF k % 2 = 1 THEN u % 256 ELSE u \div 256]

\* new Int16Array(data.buffer)
BytesInt16(b) ==
    [k \in 1..(Len(b) \div 2) |-> ToInt16(b[2 * k - 1] + 256 * b[2 * k])]

\* createPcmBlob: int16[i] = data[i] * 32768.0; the data of the blob
createPcmBlob(samples) ==
    encode(Int16Bytes([k \in 1..Len(samples) |-> ToInt16(Scaled(samples[k]))]))

\* decodeAudioData for one channel: channelData[i] = dataInt16[i] / 32768.0,
\* in 65536ths
decodeAudioData(b) ==
    LET dataInt16 == BytesInt16(b)
    IN  [k \in 1..Len(dataInt16) |-> 2 * dataInt16[k]]

\* Byte values at the ends and in the middle of the range of a byte.
ByteValues == {0, 1, 127, 128, 255}

RECURSIVE SeqsUpTo(_, _)
SeqsUpTo(S, n) ==
    IF n = 0 THEN {<<>>}
    ELSE LET shorter == SeqsUpTo(S, n - 1)
         IN  shorter \cup {Append(q, x) : q \in shorter, x \in S}

\* Samples of [-1, 1] in 65536ths: the end points, the values next to them,
\* values around zero and around a half.
SampleValues ==
    {-65536, -65535, -65534, -32769, -3, -1, 0, 1, 3, 32767, 65534, 65535,
     65536}

\* encode is applied to a byte sequence.
Encode ==
    /\ codecPc = "bytes"
    /\ base64' = encode(bytes)
    /\ codecPc' = "base64"
    /\ UNCHANGED <<panelVars, appVars, userVars, bytes, decoded, data, pcmBlob,
                   channelData>>

\* decode is applied to the result of encode.
Decode ==
    /\ codecPc = "base64"
    /\ decoded' = decode(base64)
    /\ codecPc' = "decoded"
    /\ UNCHANGED <<panelVars, appVars, userVars, bytes, base64, data, pcmBlob,
                   channelData>>

\* createPcmBlob is applied to a sample array, as in onaudioprocess.
CreatePcmBlob ==
    /\ codecPc = "samples"
    /\ pcmBlob' = createPcmBlob(data)
    /\ codecPc' = "blob"
    /\ UNCHANGED <<panelVars, appVars, userVars, bytes, base64, decoded, data,
                   channelData>>

\* decodeAudioData is applied to the decoded data of the blob, as onmessage
\* applies it to the data of an audio part.
DecodeAudioData ==
    /\ codecPc = "blob"
    /\ channelData' = decodeAudioData(decode(pcmBlob))
    /\ codecPc' = "channelData"
    /\ UNCHANGED <<panelVars, appVars, userVars, bytes, base64, decoded, data,
                   pcmBlob>>

\* encode and decode on every byte sequence up to MaxBytes bytes.
InitBase64 ==
    /\ PanelMounted(FALSE)
    /\ ProfileLoaded
    /\ UsersIdle
    /\ bytes \in SeqsUpTo(ByteValues, MaxBytes)
    /\ base64 = <<>>
    /\ decoded = <<>>
    /\ data = <<>>
    /\ pcmBlob = <<>>
    /\ channelData = <<>>
    /\ codecPc = "bytes"

NextBase64 == Encode \/ Decode

SpecBase64 == InitBase64 /\ [][NextBase64]_vars

\* createPcmBlob and decodeAudioData on every sample array up to MaxSamples
\* samples.
InitPcm ==
    /\ PanelMounted(FALSE)
    /\ ProfileLoaded
    /\ UsersIdle
    /\ bytes = <<>>
    /\ base64 = <<>>
    /\ decoded = <<>>
    /\ data \in SeqsUpTo(SampleValues, MaxSamples)
    /\ pcmBlob = <<>>
    /\ channelData = <<>>
    /\ codecPc = "samples"

NextPcm == CreatePcmBlob \/ DecodeAudioData

SpecPcm == InitPcm /\ [][NextPcm]_vars

-----------------------------------------------------------------------------
\* App: the user profile

\* App commits a render, which it does before anything else happens:
\* handleUpdateUserProfile is made again and closes over the userProfile of
\* this render.
AppRender ==
    /\ profileRendered # userProfile
    /\ profileRendered' = userProfile
    /\ profileEv' = "none"
    /\ UNCHANGED <<panelVars, codecVars, userVars, userProfile, profileCalls>>

\* handleUpdateUserProfile(history), called by the panel when a turn is
\* complete or a session is torn down: nothing for fewer than two turns;
\* otherwise updateUserProfile is called with the userProfile that the
\* callback closed over and awaits the extractor.
HandleUpdateUserProfile(length) ==
    /\ profileRendered = userProfile
    /\ Len(profileCalls) < MaxCalls
    /\ IF length < 2
       THEN /\ profileEv' = "returned"
            /\ UNCHANGED profileCalls
       ELSE /\ profileEv' = "called"
            /\ profileCalls' = Append(profileCalls, profileRendered)
    /\ UNCHANGED <<panelVars, codecVars, userVars, userProfile, profileRendered>>

\* The extractor answers call k with a profile: updateUserProfile returns
\* JSON.parse(response.text) and the handler sets it.
ExtractorSucceeds(k, profile) ==
    /\ profileRendered = userProfile
    /\ k \in 1..Len(profileCalls)
    /\ userProfile' = profile
    /\ profileCalls' = Remove(profileCalls, k)
    /\ profileEv' = "updated"
    /\ UNCHANGED <<panelVars, codecVars, userVars, profileRendered>>

\* The extractor call k is rejected, or its text does not parse: the catch of
\* updateUserProfile returns the currentUserProfile it was given, and the
\* handler sets it.
ExtractorFails(k) ==
    /\ profileRendered = userProfile
    /\ k \in 1..Len(profileCalls)
    /\ userProfile' = profileCalls[k]
    /\ profileCalls' = Remove(profileCalls, k)
    /\ profileEv' = "failed"
    /\ UNCHANGED <<panelVars, codecVars, userVars, profileRendered>>

NextProfile ==
    \/ AppRender
    \/ \E length \in 1..MaxTurns : HandleUpdateUserProfile(length)
    \/ \E k \in 1..MaxCalls : \E profile \in Profiles :
           ExtractorSucceeds(k, profile)
    \/ \E k \in 1..MaxCalls : ExtractorFails(k)

SpecProfile == InitSpoken /\ [][NextProfile]_vars

\* The greeting, with the mute button and the life cycle of a session.
NextGreeting ==
    \/ Lifecycle
    \/ ToggleMute
    \/ GreetingStarts
    \/ GreetingFails
    \/ GreetingEnds

SpecGreeting == Init /\ [][NextGreeting]_vars

----------------------------------------------------------------------------
\* App and its users

\* App's state was set since its last render.
UserDirty == userRendered # UserSnapshot

\* playGreeting of the panel, called with the initialGreeting of the render
\* whose effect runs: a greeting that is not null is given to generateSpeech
\* and played.  The panel mounts with isMuted false.
PlayGreetingFor(greeting) ==
    IF greeting # NoUser
    THEN [greetingsFor EXCEPT ![greeting] = @ + 1]
    ELSE greetingsFor

\* handleSelectUser(user) on the login screen: setCurrentUser(user)
HandleSelectUser(user) ==
    /\ ~UserDirty
    /\ currentUser = NoUser
    /\ currentUser' = user
    /\ UNCHANGED <<greetingUser, historyUser, savedHistory, greetingsFor,
                   userRendered, panelVars, codecVars, appVars>>

\* handleSwitchUser: setConversationHistory([]), setCurrentUser(null); the
\* initialGreeting state is not set.
HandleSwitchUser ==
    /\ ~UserDirty
    /\ currentUser # NoUser
    /\ historyUser' = NoUser
    /\ currentUser' = NoUser
    /\ UNCHANGED <<greetingUser, savedHistory, greetingsFor, userRendered,
                   panelVars, codecVars, appVars>>

\* handleClearConversation: the saved history of the user is removed and the
\* history is set to one assistant turn.
HandleClearConversation ==
    /\ ~UserDirty
    /\ currentUser # NoUser
    /\ savedHistory' = savedHistory \ {currentUser}
    /\ historyUser' = currentUser
    /\ UNCHANGED <<currentUser, greetingUser, greetingsFor, userRendered,
                   panelVars, codecVars, appVars>>

\* React commits a render of App.  App renders the panel when a user is
\* selected; onGreetingSpoken is a new function in every render of App, so
\* the greeting effect of a mounted panel runs in every commit and calls
\* playGreeting with the initialGreeting of this render.  Then the effects of
\* App run: the load effect when currentUser changed, the save effect when
\* currentUser or conversationHistory changed, both with the state that this
\* render read.
UserRender ==
    /\ UserDirty
    /\ greetingsFor' = IF currentUser # NoUser
                       THEN PlayGreetingFor(greetingUser)
                       ELSE greetingsFor
    /\ \A u \in Users : greetingsFor'[u] <= MaxGreetings
    /\ IF currentUser # userRendered.currentUser /\ currentUser # NoUser
       THEN IF currentUser \in savedHistory
            THEN /\ historyUser' = currentUser
                 /\ UNCHANGED greetingUser
            ELSE /\ greetingUser' = currentUser
                 /\ historyUser' = currentUser
       ELSE UNCHANGED <<greetingUser, historyUser>>
    /\ savedHistory' =
           IF /\ \/ currentUser # userRendered.currentUser
                 \/ historyUser # userRendered.historyUser
              /\ currentUser # NoUser
              /\ historyUser # NoUser
           THEN savedHistory \cup {currentUser}
           ELSE savedHistory
    /\ userRendered' = UserSnapshot
    /\ UNCHANGED <<currentUser, panelVars, codecVars, appVars>>

\* source.onended of a greeting whose text names user: onGreetingSpoken()
\* is () => setInitialGreeting(null).
GreetingSpoken(user) ==
    /\ ~UserDirty
    /\ greetingsFor[user] > 0
    /\ greetingsFor' = [greetingsFor EXCEPT ![user] = @ - 1]
    /\ greetingUser' = NoUser
    /\ UNCHANGED <<currentUser, historyUser, savedHistory, userRendered,
                   panelVars, codecVars, appVars>>

\* generateSpeech or the decoding of a greeting whose text names user
\* throws: the catch of playGreeting does not call onGreetingSpoken.
GreetingUnspoken(user) ==
    /\ ~UserDirty
    /\ greetingsFor[user] > 0
    /\ greetingsFor' = [greetingsFor EXCEPT ![user] = @ - 1]
    /\ UNCHANGED <<currentUser, greetingUser, historyUser, savedHistory,
                   userRendered, panelVars, codecVars, appVars>>

\* App from the login screen, with any saved histories.
InitUsers ==
    /\ PanelMounted(FALSE)
    /\ CodecIdle
    /\ ProfileLoaded
    /\ \E saved \in SUBSET Users : LoginScreen(saved)

NextUsers ==
    \/ \E user \in Users : HandleSelectUser(user)
    \/ HandleSwitchUser
    \/ HandleClearConversation
    \/ UserRender
    \/ \E user \in Users : GreetingSpoken(user)
    \/ \E user \in Users : GreetingUnspoken(user)

SpecUsers == InitUsers /\ [][NextUsers]_vars

----------------------------------------------------------------------------
\* C1: no two sessions that are open at the same time have both delivered
\* messages to the transcript part of onmessage.
SingleActiveSession ==
    \A i, j \in Sessions :
        (/\ i # j
         /\ sessions[i].state = "open" /\ sessions[j].state = "open")
        => ~(sessions[i].delivered /\ sessions[j].delivered)

\* C2: a stopSession that completes while the committed user buffer is not
\* empty appends exactly one user turn, whose text is that buffer.
TrailingUtteranceFlushed ==
    [][(ev'.stop = "done" /\ Trim(fullInputTranscriptRef) # EmptyText)
       => conversationHistory' =
              Append(conversationHistory,
                     Turn("user", Trim(fullInputTranscriptRef)))]_vars

\* C3: no turn of the conversation history holds text of a partial fragment.
NoPartialTextInHistory ==
    \A k \in 1..Len(conversationHistory) :
        \A c \in 1..Len(conversationHistory[k].text) :
            conversationHistory[k].text[c] # "p"

\* C4: a task that appends two turns keeps the turns before them and appends
\* the user turn immediately before the assistant turn.
UserTurnBeforeAssistantTurn ==
    [][Len(conversationHistory') = Len(conversationHistory) + 2
       => LET n == Len(conversationHistory)
          IN  /\ SubSeq(conversationHistory', 1, n) = conversationHistory
              /\ conversationHistory'[n + 1].speaker = "user"
              /\ conversationHistory'[n + 2].speaker = "assistant"]_vars

\* C4, witness: both sides were flushed and the assistant's final fragment
\* had arrived before the user's.
FlushedBothAssistantFirst ==
    /\ ev.first = "assistant"
    /\ conversationHistory[Len(conversationHistory)].speaker = "assistant"
    /\ conversationHistory[Len(conversationHistory) - 1].speaker = "user"

\* C5: a chunk is scheduled exactly when the mute flag is off at the time the
\* chunk is handled.
MuteReadAtChunk ==
    /\ ev.audio = "scheduled" => ~isMuted
    /\ ev.audio = "dropped" => isMuted

\* The state a completed stopSession leaves when nothing ran beside it.
Stopped ==
    /\ sessionPromiseRef = NoRef
    /\ mediaStreamRef = NoRef
    /\ inputAudioContextRef = NoRef
    /\ sources = <<>>
    /\ ~isListening
    /\ status = IdleStatus
    /\ fullInputTranscriptRef = EmptyText
    /\ fullOutputTranscriptRef = EmptyText
    /\ ~isStoppingRef

Released(i) == <<sessions[i].mic, sessions[i].inputCtx, sessions[i].closes>>

\* C6: a stopSession call made while another is in progress changes nothing;
\* a call made in the state a completed call left changes nothing; no session
\* is closed twice and no media stream is stopped twice.
StopSessionIdempotent ==
    /\ [][ev'.stop = "noop"
          => /\ UNCHANGED <<sessionPromiseRef, mediaStreamRef,
                            inputAudioContextRef, sources, isListening,
                            conversationHistory, fullInputTranscriptRef,
                            fullOutputTranscriptRef, isStoppingRef, stopTasks>>
             /\ \A i \in Sessions :
                    sessions[i].state # "unused" => Released(i)' = Released(i)]_vars
    /\ [][(Stopped /\ ev'.stop # "none")
          => /\ ev'.stop = "done"
             /\ UNCHANGED <<sessionPromiseRef, mediaStreamRef,
                            inputAudioContextRef, sources, isListening,
                            conversationHistory, fullInputTranscriptRef,
                            fullOutputTranscriptRef, isStoppingRef, stopTasks>>
             /\ (ev'.origin # "cleanup" => UNCHANGED status)
             /\ \A i \in Sessions :
                    sessions'[i].state # "unused" => Released(i)' = Released(i)]_vars
    /\ [](\A i \in Sessions :
              sessions[i].closes <= 1 /\ sessions[i].micStops <= 1)

\* C6, witness: stopSession was called while another call was in progress.
DuplicateStopCall == ev.stop = "noop" /\ isStoppingRef /\ stopTasks # <<>>

\* C7: when the teardown that a transport error started has completed, no
\* media stream is live and no output context is open.
NoLeakAfterErrorCleanup ==
    (ev.stop = "done" /\ ev.origin = "onerror")
    => /\ outputAudioContextRef # "open"
       /\ \A i \in Sessions : sessions[i].mic # "live"

\* C8: from a transport error until the user starts a session again the status
\* is an error status.
ErrorStatusPersists == sinceError # "none" => status \in ErrorStatuses

\* Nothing but a click can happen.
Quiescent ==
    /\ ~Dirty
    /\ stopTasks = <<>>
    /\ \A i \in Sessions : sessions[i].state \in {"unused", "closed", "failed",
                                                  "rejected"}

GreetingCompletionSignalled ==
    ev.signalled # "none" => (ev.signalled = "yes" /\ ~initialGreeting)

\* C11: at most one playback of the greeting is in progress, waiting for
\* generateSpeech or playing.
OneGreetingAtATime == synthPending + greetingPlaying <= 1

\* C12: while the session promise that startSession stored is rejected and
\* no stopSession has begun, the status is an error status and isListening
\* is false.
ConnectFailureReported ==
    \A i \in Sessions :
        (/\ sessions[i].state = "rejected"
         /\ sessionPromiseRef = i
         /\ ~isStoppingRef
         /\ stopTasks = <<>>)
        => (status \in ErrorStatuses /\ ~isListening)

\* C13: a task in which the getUserMedia of a startSession call fails ends
\* with the microphone error status and isListening false; the call stores
\* no session promise, and no startSession is called in that task.
MicFailureReported ==
    [][\A i \in Sessions :
          (/\ sessions[i].state = "acquiring"
           /\ sessions'[i].state \notin {"acquiring", "connecting"})
          => /\ status' = MicErrorStatus
             /\ MicErrorStatus # SessionErrorStatus
             /\ ~isListening'
             /\ sessions'[i].state = "unused"
             /\ UNCHANGED <<sessionPromiseRef, mediaStreamRef,
                            inputAudioContextRef>>
             /\ \A j \in Sessions :
                    sessions'[j].state = "acquiring"
                    => sessions[j].state = "acquiring"]_vars

\* C13, witness: getUserMedia failed and nothing has happened since.
MicFailureShown ==
    /\ status = MicErrorStatus
    /\ ~isListening
    /\ Started = {}

\* The stopSession calls made by onerror that are suspended at an await.
ErrorStops == {k \in 1..Len(stopTasks) : stopTasks[k].origin = "onerror"}

RECURSIVE SumDurations(_, _)
SumDurations(q, n) ==
    IF n = 0 THEN 0 ELSE q[n].duration + SumDurations(q, n - 1)

\* The live source nodes were all started while the clock was not past the
\* start of the first of them.
EnqueuedBeforePlayback ==
    \A k \in 1..Len(sources) : sources[k].at <= sources[1].start

\* C15: chunks that are all enqueued before playback begins, with no
\* interruption in between, play back to back: each starts where the chunks
\* before it end, that is at the start of the first plus the sum of the
\* durations before it, and nextStartTime is the end of the last.
GaplessSchedule ==
    (sources # <<>> /\ EnqueuedBeforePlayback)
        => /\ \A k \in 1..Len(sources) :
                  sources[k].start
                      = sources[1].start + SumDurations(sources, k - 1)
           /\ nextStartTime
                  = sources[1].start + SumDurations(sources, Len(sources))

\* Two chunks of different durations are enqueued before the first plays.
TwoChunksQueued ==
    /\ Len(sources) >= 2
    /\ EnqueuedBeforePlayback
    /\ sources[1].duration # sources[2].duration

\* C16: after every interrupted signal no source node is left and
\* nextStartTime is 0; a signal that arrives when no source node is live and
\* nextStartTime is 0, as after an earlier signal, changes none of them and
\* nothing else of the session.
InterruptIdempotent ==
    /\ [][ev'.interrupted # "none"
              => sources' = <<>> /\ nextStartTime' = 0]_vars
    /\ [][ev'.interrupted = "noop"
              => UNCHANGED <<sources, nextStartTime, outputAudioContextRef,
                             currentTime, isListening, status,
                             conversationHistory, sessionPromiseRef,
                             mediaStreamRef, inputAudioContextRef,
                             fullInputTranscriptRef, fullOutputTranscriptRef,
                             isStoppingRef, stopTasks>>]_vars

\* An interrupted signal arrives after the earlier one has cleared the
\* playback of a chunk.
InterruptRepeated ==
    /\ ev.interrupted = "noop"
    /\ outputAudioContextRef = "open"
    /\ isListening

\* C17: decode gives back, byte for byte, the byte sequence that encode was
\* given.
Base64RoundTrip == codecPc = "decoded" => decoded = bytes

\* A round trip of two bytes, one of them with its high bit set, whose text
\* is padded.
PaddedRoundTrip ==
    /\ codecPc = "decoded"
    /\ Len(bytes) = 2
    /\ bytes[1] = 255
    /\ base64[4] = Pad

\* The distance of two numbers.
Distance(a, b) == IF a >= b THEN a - b ELSE b - a

\* C18: every sample of [-1, 1] comes back from createPcmBlob and
\* decodeAudioData within 1/32768, that is within two 65536ths, the end
\* points 1 and -1 included.
PcmRoundTripWithinStep ==
    codecPc = "channelData"
        => /\ Len(channelData) = Len(data)
           /\ \A k \in 1..Len(data) : Distance(channelData[k], data[k]) <= 2

\* C19: a failed update leaves the user profile as it was immediately before
\* the failure was handled, also when another update has succeeded while the
\* failing call was in flight.
FailedUpdateKeepsProfile ==
    [][profileEv' = "failed" => userProfile' = userProfile]_vars

\* C20: once stopSession has begun on a session and called its close(), no
\* captured frame is sent to that session.
NoFrameAfterStop == ev.frame # "late"

CommittedWith(buffer, t) ==
    IF t.isFinal THEN buffer \o Space \o t.text ELSE buffer

\* The turn that a committed buffer gives: none when it holds no text.
CommittedTurn(speaker, buffer) ==
    IF Trim(buffer) # EmptyText
    THEN << Turn(speaker, Trim(buffer)) >> ELSE <<>>

\* C23: a turn-complete signal appends, for each side, one turn with the text
\* of the side's committed buffer when the buffer holds text and none when it
\* holds none, the user's before the assistant's; afterwards both committed
\* buffers and both live fragments are empty.  A final fragment that the
\* message carries counts as committed.
TurnCompleteFlushesCommitted ==
    [][ev'.message.turnComplete
          => /\ conversationHistory' =
                    conversationHistory
                    \o CommittedTurn("user",
                           CommittedWith(fullInputTranscriptRef,
                                         ev'.message.inputTranscription))
                    \o CommittedTurn("assistant",
                           CommittedWith(fullOutputTranscriptRef,
                                         ev'.message.outputTranscription))
             /\ fullInputTranscriptRef' = EmptyText
             /\ fullOutputTranscriptRef' = EmptyText
             /\ liveUserTranscript' = EmptyText
             /\ liveAssistantTranscript' = EmptyText]_vars

\* t is a partial fragment.
IsPartial(t) == ~t.isFinal /\ t.text # EmptyText

\* C24: a committed buffer changes only by the append of a final fragment of
\* its side, or by being emptied at a turn-complete signal or at the end of
\* stopSession; a partial fragment becomes the live fragment of its side and
\* changes no committed buffer; the live fragment of a side is empty after a
\* final fragment of that side and after a turn-complete signal.
CommittedAppendOnly ==
    /\ [][fullInputTranscriptRef' # fullInputTranscriptRef
              => \/ /\ ev'.message.inputTranscription.isFinal
                    /\ ~ev'.message.turnComplete
                    /\ fullInputTranscriptRef' =
                           fullInputTranscriptRef \o Space
                               \o ev'.message.inputTranscription.text
                 \/ /\ ev'.message.turnComplete \/ ev'.stop = "done"
                    /\ fullInputTranscriptRef' = EmptyText]_vars
    /\ [][fullOutputTranscriptRef' # fullOutputTranscriptRef
              => \/ /\ ev'.message.outputTranscription.isFinal
                    /\ ~ev'.message.turnComplete
                    /\ fullOutputTranscriptRef' =
                           fullOutputTranscriptRef \o Space
                               \o ev'.message.outputTranscription.text
                 \/ /\ ev'.message.turnComplete \/ ev'.stop = "done"
                    /\ fullOutputTranscriptRef' = EmptyText]_vars
    /\ [][(ev'.message.inputTranscription.isFinal
               /\ ~ev'.message.turnComplete)
              => fullInputTranscriptRef' =
                     fullInputTranscriptRef \o Space
                         \o ev'.message.inputTranscription.text]_vars
    /\ [][(ev'.message.outputTranscription.isFinal
               /\ ~ev'.message.turnComplete)
              => fullOutputTranscriptRef' =
                     fullOutputTranscriptRef \o Space
                         \o ev'.message.outputTranscription.text]_vars
    /\ [][(IsPartial(ev'.message.inputTranscription)
               /\ ~ev'.message.turnComplete)
              => /\ liveUserTranscript' = ev'.message.inputTranscription.text
                 /\ fullInputTranscriptRef' = fullInputTranscriptRef]_vars
    /\ [][(IsPartial(ev'.message.outputTranscription)
               /\ ~ev'.message.turnComplete)
              => /\ liveAssistantTranscript' =
                        ev'.message.outputTranscription.text
                 /\ fullOutputTranscriptRef' = fullOutputTranscriptRef]_vars
    /\ [][ev'.message.inputTranscription.isFinal
              => liveUserTranscript' = EmptyText]_vars
    /\ [][ev'.message.outputTranscription.isFinal
              => liveAssistantTranscript' = EmptyText]_vars
    /\ [][ev'.message.turnComplete
              => /\ liveUserTranscript' = EmptyText
                 /\ liveAssistantTranscript' = EmptyText]_vars

\* The user's committed buffer holds two final fragments and a partial
\* fragment is live.
TwoCommittedOneLive ==
    /\ Len(fullInputTranscriptRef) = 4
    /\ liveUserTranscript = PartialFragment.text
    /\ IsPartial(ev.message.inputTranscription)

\* The turns that a step added at the end of the conversation history.
Added(before, after) == SubSeq(after, Len(before) + 1, Len(after))

\* C25: every step keeps the turns of the conversation history as they are
\* and in their order, and adds turns at the end only, each of them final and
\* with a text that is not empty and is trimmed.
HistoryAppendOnly ==
    [][/\ Len(conversationHistory') >= Len(conversationHistory)
       /\ SubSeq(conversationHistory', 1, Len(conversationHistory))
              = conversationHistory
       /\ \A k \in 1..Len(Added(conversationHistory, conversationHistory')) :
              LET turn == Added(conversationHistory, conversationHistory')[k]
              IN  /\ turn.isFinal
                  /\ turn.text # EmptyText
                  /\ Trim(turn.text) = turn.text]_vars

\* The history holds the turns of a turn-complete flush and, after them, the
\* user turn that the teardown in the last step flushed.
FlushedByTurnAndTeardown ==
    /\ ev.stop = "done"
    /\ Len(conversationHistory) = Len(rendered.conversationHistory) + 1
    /\ Len(rendered.conversationHistory) > Len(WelcomeHistory)

\* C26: a stopSession that completes appends no assistant turn, whatever
\* assistant text is committed or live: the turns it adds are user turns, and
\* the assistant's committed buffer and live fragment are empty afterwards.
TeardownAppendsNoAssistantTurn ==
    [][ev'.stop = "done"
          => /\ \A k \in 1..Len(Added(conversationHistory,
                                      conversationHistory')) :
                    Added(conversationHistory, conversationHistory')[k].speaker
                        = "user"
             /\ fullOutputTranscriptRef' = EmptyText
             /\ liveAssistantTranscript' = EmptyText]_vars

\* A stopSession completed while assistant text was committed or live, and
\* flushed the user's committed buffer.
AssistantTextDiscarded ==
    /\ ev.discarded
    /\ Len(conversationHistory) > Len(rendered.conversationHistory)

\* C27: close() is called on an open session only by a stopSession that the
\* mic button, onerror or onclose called, never by one that the cleanup of
\* the greeting effect called when a dependency of the effect changed (the
\* panel is never unmounted here).
OpenSessionClosedByOwnerOnly == ev.closedBy # "cleanup"

\* startSession set isListening and the 'Connecting...' status before it
\* began to wait for the microphone of session i; a stopSession that
\* completed since has set them back (it found no reference to release).
StoppedEarly(i) ==
    /\ sessions[i].state = "acquiring"
    /\ ~isListening
    /\ status = IdleStatus

\* C28: when a stopSession ran while a startSession was still waiting for
\* the microphone, then after the step in which startSession continues, with
\* no stopSession in progress, the session holds no microphone stream and is
\* not open or about to open.
NoSessionAfterEarlyStop ==
    [][\A i \in Sessions :
          (/\ StoppedEarly(i)
           /\ sessions'[i].state # "acquiring"
           /\ ~isStoppingRef'
           /\ stopTasks' = <<>>)
              => /\ sessions'[i].mic # "live"
                 /\ sessions'[i].state \notin {"connecting", "open"}]_vars

\* C29: whenever a session is open and no stopSession is in progress,
\* isListening is true and the status is not the idle status.
OpenSessionShownAsListening ==
    (/\ \E i \in Sessions : sessions[i].state = "open"
     /\ ~isStoppingRef
     /\ stopTasks = <<>>)
        => isListening /\ status # IdleStatus

\* C30: once App has rendered the selected user and run its effects, the
\* greeting it holds is null or names that user, and every playGreeting call
\* plays a greeting that names the user selected at the time.
GreetingNamesCurrentUser ==
    [][/\ (userRendered' = UserSnapshot' /\ currentUser' # NoUser)
           => greetingUser' \in {NoUser, currentUser'}
       /\ \A u \in Users :
              greetingsFor'[u] > greetingsFor[u] => u = currentUser']_vars
====
